---- MODULE Spec2Model ----
(***************************************************************************)
(* Scanner of src/src/arc_helper/main.py: the two-phase polling loop       *)
(* (_scan_loop), its control operations (start, stop, pause, resume) run   *)
(* by the foreground (Tk) thread, and the cooldown-gated handling of a     *)
(* detected item name (_handle_detected_item).                             *)
(*                                                                         *)
(* Time is counted in tenths of a second.  The screen is the environment:  *)
(* `visible` is the set of trigger regions in which check_trigger would    *)
(* find the trigger word right now, and the tooltip under the cursor is    *)
(* chosen afresh at every tooltip scan.  Every call that can raise (the    *)
(* status post, the capture/recognition of a check or a scan, the lookup,  *)
(* the display post) has a raising outcome.                                *)
(***************************************************************************)
EXTENDS Integers, FiniteSets, Sequences, TLC

\* ------------------------------------------------------------------ bounds
\* loop threads that may be alive at the same time
MaxThreads == 2
\* tooltip scans, Active ticks and trigger scans after which no further tick begins
MaxScans == 3
MaxTicks == 6
MaxTriggerScans == 2
\* the same, where stop() may return on its join timeout and two loops run at once
MaxScansRace == 1
MaxTicksRace == 3
MaxTriggerScansRace == 1
\* latest clock reading considered at the entry of _handle_detected_item
MaxTime == 12
\* lines of a tooltip text
MaxLines == 4
\* characters that follow a word in a recognised text
MaxSuffix == 3
\* rows of a captured image
MaxRows == 4
\* width and height of the screen
MaxScreen == 3
\* trigger scans over several periods of Active
MaxTriggerScansRecheck == 3
\* tooltip scans and Active ticks, where the Tk main loop or a settings reload
\* runs beside the loop
MaxScansLive == 2
MaxTicksLive == 3

Threads == 1..MaxThreads

\* ------------------------------------------------------- program constants
\* OverlaySettings.cooldown, 2.0 s
Cooldown == 20
\* `self._trigger_check_counter % 3 == 0`
RecheckEvery == 3

\* ScannerState
IDLE == "IDLE"
ACTIVE == "ACTIVE"
PAUSED == "PAUSED"
STOPPED == "STOPPED"
ScannerState == {IDLE, ACTIVE, PAUSED, STOPPED}

\* [settings.trigger_region, settings.trigger_region2]
Regions == {1, 2}

\* ------------------------------------------------------------ environment
\* item names the tooltip parser can return; NoName is its None
Names == {"WIDGET", "GADGET"}
NoName == ""
\* names held by the items table
Store == {"WIDGET"}
\* advance of time.time() between two readings
Deltas == {10}
\* OverlaySettings.cooldown after the configuration file was edited, 0.5 s
ReloadedCooldown == 5
\* a Settings instance, as far as the scanner reads it
Settings(c) == [cooldown |-> c]

VARIABLES
    state,                  \* Scanner.state
    running,                \* Scanner._running
    scan_thread,            \* Scanner._scan_thread: 0 is None, else the thread last started
    stats,                  \* Scanner.stats : ScannerStats
    last_shown_item,        \* Scanner._last_shown_item
    last_shown_time,        \* Scanner._last_shown_time
    trigger_check_counter,  \* Scanner._trigger_check_counter
    pc,                     \* position of every loop thread in _scan_loop
    item_name,              \* local item_name of every loop thread
    current_time,           \* local current_time of _handle_detected_item
    fg,                     \* position of the foreground thread in start/stop
    visible,                \* trigger regions that show the trigger word
    clock,                  \* last reading of time.time()
    status_posted,          \* last status handed to root.after by _update_status
    shows,                  \* number of display requests handed to root.after
    last_show,              \* last display request: <<name, item found>>
    goneScans,              \* history: tooltip scans begun while the trigger is in no
                            \* region, since it disappeared or was last re-checked
    status_shown,           \* what the status widget shows
    overlay_shown,          \* what the overlay widget shows: <<requests run, last one>>
    instance,               \* SettingsManager._instance
    loop_settings,          \* local `settings` of every loop thread
    call,                   \* a call of an OCREngine function: its name and arguments
    returned                \* <<>> until the call returns, then <<its value>>

vars == <<state, running, scan_thread, stats, last_shown_item, last_shown_time,
          trigger_check_counter, pc, item_name, current_time, fg, visible, clock,
          status_posted, shows, last_show, goneScans, status_shown,
          overlay_shown, instance, loop_settings, call, returned>>

scanner == <<state, running, scan_thread, stats, last_shown_item, last_shown_time,
             trigger_check_counter>>
cooldown == <<last_shown_item, last_shown_time>>
ui == <<status_posted, shows, last_show>>
locals == <<item_name, current_time>>
widgets == <<status_shown, overlay_shown>>
config == <<instance, loop_settings>>
ocr == <<call, returned>>
\* no OCREngine function under study
NoCall == [fn |-> "none", text |-> <<>>, target |-> <<>>]

ScannerStats ==
    [trigger_scans |-> 0, tooltip_scans |-> 0, items_detected |-> 0,
     items_found_in_db |-> 0, last_item |-> NoName, last_item_time |-> 0]

Init ==
    /\ state = IDLE
    /\ running = FALSE
    /\ scan_thread = 0
    /\ stats = ScannerStats
    /\ last_shown_item = NoName
    /\ last_shown_time = 0
    /\ trigger_check_counter = 0
    /\ pc = [t \in Threads |-> "none"]
    /\ item_name = [t \in Threads |-> NoName]
    /\ current_time = [t \in Threads |-> 0]
    /\ fg = "ready"
    /\ visible = {}
    /\ clock = 0
    /\ status_posted = "none"
    /\ shows = 0
    /\ last_show = <<NoName, FALSE>>
    /\ goneScans = 0
    /\ status_shown = "none"
    /\ overlay_shown = <<0, <<NoName, FALSE>>>>
    /\ instance = Settings(Cooldown)
    /\ loop_settings = [t \in Threads |-> Settings(Cooldown)]
    /\ call = NoCall
    /\ returned = <<>>


\* ------------------------------------------------------------ foreground
Exited(t) == pc[t] \in {"none", "done", "dead"}

\* start(), lines 136-139: return when already running, else set the flag
start_flag ==
    /\ fg = "ready"
    /\ ~running
    /\ \E t \in Threads : Exited(t)
    /\ running' = TRUE
    /\ fg' = "start"
    /\ UNCHANGED <<state, scan_thread, stats, cooldown, trigger_check_counter, pc,
                   locals, visible, clock, ui, goneScans,
                   widgets, config, ocr>>

\* start(), lines 140-142: reset the state, create and start the loop thread
start_thread ==
    /\ fg = "start"
    /\ state' = IDLE
    /\ LET new == CHOOSE t \in Threads : Exited(t) /\ \A u \in Threads : Exited(u) => t <= u
       IN  /\ scan_thread' = new
           /\ pc' = [pc EXCEPT ![new] = "begin"]
    /\ fg' = "ready"
    /\ UNCHANGED <<running, stats, cooldown, trigger_check_counter, locals, visible,
                   clock, ui, goneScans,
                   widgets, config, ocr>>

\* stop(), line 147
stop_flag ==
    /\ fg = "ready"
    /\ running' = FALSE
    /\ fg' = "stop"
    /\ UNCHANGED <<state, scan_thread, stats, cooldown, trigger_check_counter, pc,
                   locals, visible, clock, ui, goneScans,
                   widgets, config, ocr>>

\* stop(), lines 148-149
stop_state ==
    /\ fg = "stop"
    /\ state' = STOPPED
    /\ fg' = IF scan_thread = 0 THEN "ready" ELSE "join"
    /\ UNCHANGED <<running, scan_thread, stats, cooldown, trigger_check_counter, pc,
                   locals, visible, clock, ui, goneScans,
                   widgets, config, ocr>>

\* stop(), line 150: join returns because the loop thread has exited
stop_join ==
    /\ fg = "join"
    /\ Exited(scan_thread)
    /\ fg' = "ready"
    /\ UNCHANGED <<scanner, pc, locals, visible, clock, ui, goneScans,
                   widgets, config, ocr>>

\* stop(), line 150: join(timeout=2.0) returns while the loop thread still runs
stop_timeout ==
    /\ fg = "join"
    /\ ~Exited(scan_thread)
    /\ fg' = "ready"
    /\ UNCHANGED <<scanner, pc, locals, visible, clock, ui, goneScans,
                   widgets, config, ocr>>

pause ==
    /\ fg = "ready"
    /\ state' = PAUSED
    /\ UNCHANGED <<running, scan_thread, stats, cooldown, trigger_check_counter, pc,
                   locals, fg, visible, clock, ui, goneScans,
                   widgets, config, ocr>>

resume_resetting ==
    /\ fg = "ready"
    /\ state' = IDLE
    /\ trigger_check_counter' = 0
    /\ UNCHANGED <<running, scan_thread, stats, cooldown, pc,
                   locals, fg, visible, clock, ui, goneScans,
                   widgets, config, ocr>>
resume ==
    /\ fg = "ready"
    /\ state' = IDLE
    /\ UNCHANGED <<running, scan_thread, stats, cooldown, trigger_check_counter, pc,
                   locals, fg, visible, clock, ui, goneScans,
                   widgets, config, ocr>>

Foreground ==
    \/ start_flag
    \/ start_thread
    \/ stop_flag
    \/ stop_state
    \/ stop_join
    \/ pause
    \/ resume

\* ------------------------------------------------------------ environment
\* the game shows or hides the trigger word in the trigger regions
ScreenChange ==
    /\ \E v \in SUBSET Regions : v # visible /\ visible' = v
    /\ goneScans' = 0
    /\ UNCHANGED <<scanner, pc, locals, fg, clock, ui,
                   widgets, config, ocr>>

\* root.mainloop(): the foreground thread runs the callbacks handed to
\* root.after since it last did, in the order they were posted; the widgets
\* then show the last status and the last display request
mainloop ==
    /\ fg = "ready"
    /\ <<status_shown, overlay_shown>> # <<status_posted, <<shows, last_show>>>>
    /\ status_shown' = status_posted
    /\ overlay_shown' = <<shows, last_show>>
    /\ UNCHANGED <<scanner, pc, locals, fg, visible, clock, ui, goneScans, config,
                   ocr>>

\* reload_settings(): SettingsManager._instance is replaced by a new Settings
reload_settings ==
    /\ fg = "ready"
    /\ \E c \in {Cooldown, ReloadedCooldown} :
          /\ Settings(c) # instance
          /\ instance' = Settings(c)
    /\ UNCHANGED <<scanner, pc, locals, fg, visible, clock, ui, goneScans, widgets,
                   loop_settings, ocr>>

\* ------------------------------------------------------------ loop thread
Goto(t, l) == pc' = [pc EXCEPT ![t] = l]

\* the loop begins another tick only while the counters are below the bounds b
Budget(b) ==
    /\ stats.trigger_scans < b.trigger
    /\ stats.tooltip_scans < b.tooltip
    /\ trigger_check_counter < b.ticks

SpecBudget == [trigger |-> MaxTriggerScans, tooltip |-> MaxScans, ticks |-> MaxTicks]
RaceBudget ==
    [trigger |-> MaxTriggerScansRace, tooltip |-> MaxScansRace, ticks |-> MaxTicksRace]
LiveBudget == [trigger |-> MaxTriggerScans, tooltip |-> MaxScansLive, ticks |-> MaxTicksLive]
RecheckBudget ==
    [trigger |-> MaxTriggerScansRecheck, tooltip |-> MaxScans, ticks |-> MaxTicksLive]

\* self.root.after(0, update) of _update_status: the callback is handed to Tk
\* and the status widget is left alone
call_update(status) ==
    /\ status_posted' = status
    /\ status_shown' = status
root_after(status) ==
    /\ status_posted' = status
    /\ UNCHANGED status_shown

\* except Exception, lines 218-221: report the error and back off; when the
\* status post of the handler raises too, the exception leaves _scan_loop
Raised(t) ==
    \/ /\ root_after("error")
       /\ Goto(t, "backoff")
    \/ /\ UNCHANGED <<status_posted, status_shown>>
       /\ Goto(t, "dead")

\* _update_status(status) followed by the code at `next`, or the post raises
Post(t, status, next) ==
    \/ /\ root_after(status)
       /\ Goto(t, next)
    \/ Raised(t)

\* OCREngine.check_trigger(region) on the present screen
check_trigger_first(r) == r = 1 /\ r \in visible
check_trigger(r) == r \in visible

\* Database.lookup(name): the item, or None
lookup(name) == name \in Store

\* the cooldown test of _handle_detected_item; its window is read from
\* get_settings() at every call (line 225)
InCooldownInclusive(name, now) ==
    /\ name = last_shown_item
    /\ now - last_shown_time <= instance.cooldown
InCooldownReversed(name, now) ==
    /\ name = last_shown_item
    /\ now - last_shown_time > instance.cooldown
InCooldown(name, now) ==
    /\ name = last_shown_item
    /\ now - last_shown_time < instance.cooldown

\* "Update cooldown tracking", the last two lines of _handle_detected_item
UpdateCooldownIfFound(name, now) ==
    IF lookup(name)
    THEN last_shown_item' = name /\ last_shown_time' = now
    ELSE UNCHANGED <<last_shown_item, last_shown_time>>
UpdateCooldown(name, now) ==
    /\ last_shown_item' = name
    /\ last_shown_time' = now

\* lines 163-164: settings = get_settings(), before the loop is entered
LoopStart(t) ==
    /\ pc[t] = "begin"
    /\ loop_settings' = [loop_settings EXCEPT ![t] = instance]
    /\ Goto(t, "top")
    /\ UNCHANGED <<scanner, locals, fg, visible, clock, ui, goneScans, widgets,
                   instance, ocr>>

\* `while self._running`
LoopTop(t, b) ==
    /\ pc[t] = "top"
    /\ \/ running /\ Budget(b) /\ Goto(t, "disp")
       \/ ~running /\ Goto(t, "done")
    /\ UNCHANGED <<scanner, locals, fg, visible, clock, ui, goneScans,
                   widgets, config, ocr>>

\* state == PAUSED: sleep(0.1); continue
LoopPausedCounting(t) ==
    /\ pc[t] = "disp"
    /\ state = PAUSED
    /\ stats' = [stats EXCEPT !.trigger_scans = @ + 1]
    /\ Goto(t, "sleep")
    /\ UNCHANGED <<state, running, scan_thread, cooldown, trigger_check_counter,
                   locals, fg, visible, clock, ui, goneScans, widgets, config, ocr>>
LoopPaused(t) ==
    /\ pc[t] = "disp"
    /\ state = PAUSED
    /\ Goto(t, "sleep")
    /\ UNCHANGED <<scanner, locals, fg, visible, clock, ui, goneScans,
                   widgets, config, ocr>>

\* state == STOPPED: break
LoopStopped(t) ==
    /\ pc[t] = "disp"
    /\ state = STOPPED
    /\ Goto(t, "done")
    /\ UNCHANGED <<scanner, locals, fg, visible, clock, ui, goneScans,
                   widgets, config, ocr>>

\* state == IDLE: post the scanning status, then check the trigger
IdleBegin(t) ==
    /\ pc[t] = "disp"
    /\ state = IDLE
    /\ Post(t, "scanning", "idle_chk1")
    /\ UNCHANGED <<scanner, locals, fg, visible, clock, shows, last_show, goneScans,
                   overlay_shown, config, ocr>>

\* check_trigger_any in state IDLE, one region per step (any() short-circuits)
IdleCheck(t, r) ==
    /\ pc[t] = IF r = 1 THEN "idle_chk1" ELSE "idle_chk2"
    /\ \/ /\ Raised(t)
          /\ UNCHANGED <<state, stats>>
       \/ /\ check_trigger(r)
          /\ state' = ACTIVE
          /\ \/ /\ root_after("active")
                /\ stats' = [stats EXCEPT !.trigger_scans = @ + 1]
                /\ Goto(t, "top")
             \/ /\ Raised(t)
                /\ UNCHANGED stats
       \/ /\ ~check_trigger(r)
          /\ Goto(t, IF r = 1 THEN "idle_chk2" ELSE "idle_sleep")
          /\ UNCHANGED <<state, stats, status_posted, status_shown>>
    /\ UNCHANGED <<running, scan_thread, cooldown, trigger_check_counter, locals, fg,
                   visible, clock, shows, last_show, goneScans,
                   overlay_shown, config, ocr>>

\* no trigger: sleep(trigger_scan_interval), then count the trigger scan
IdleWake(t) ==
    /\ pc[t] = "idle_sleep"
    /\ stats' = [stats EXCEPT !.trigger_scans = @ + 1]
    /\ Goto(t, "top")
    /\ UNCHANGED <<state, running, scan_thread, cooldown, trigger_check_counter,
                   locals, fg, visible, clock, ui, goneScans,
                   widgets, config, ocr>>

\* should_check_trigger of an ACTIVE tick, from the counter after its increment
should_check_every_second(counter) == counter % 2 = 0
should_check_every_fifth(counter) == counter % 5 = 0
should_check_trigger(counter) == counter % RecheckEvery = 0

\* state == ACTIVE: count the tick and decide whether it re-checks the trigger
ActiveBegin(t) ==
    /\ pc[t] = "disp"
    /\ state = ACTIVE
    /\ trigger_check_counter' = trigger_check_counter + 1
    /\ Goto(t, IF should_check_trigger(trigger_check_counter') THEN "act_chk1"
                                                                ELSE "act_scan")
    /\ UNCHANGED <<state, running, scan_thread, stats, cooldown, locals, fg, visible,
                   clock, ui, goneScans,
                   widgets, config, ocr>>

\* the re-check of an ACTIVE tick, one region per step
ActiveCheck(t, r) ==
    /\ pc[t] = IF r = 1 THEN "act_chk1" ELSE "act_chk2"
    /\ \/ /\ Raised(t)
          /\ goneScans' = 0
          /\ UNCHANGED state
       \/ /\ check_trigger(r)
          /\ Goto(t, "act_scan")
          /\ UNCHANGED <<state, status_posted, status_shown, goneScans>>
       \/ /\ ~check_trigger(r)
          /\ r = 1
          /\ Goto(t, "act_chk2")
          /\ UNCHANGED <<state, status_posted, status_shown, goneScans>>
       \/ /\ ~check_trigger(r)
          /\ r = 2
          /\ state' = IDLE
          /\ goneScans' = 0
          /\ Post(t, "scanning", "top")
    /\ UNCHANGED <<running, scan_thread, stats, cooldown, trigger_check_counter,
                   locals, fg, visible, clock, shows, last_show,
                   overlay_shown, config, ocr>>

\* extract_item_name_at_cursor(), then tooltip_scans += 1
Scan(t) ==
    /\ pc[t] = "act_scan"
    /\ goneScans' = IF visible = {} THEN goneScans + 1 ELSE 0
    /\ \/ /\ Raised(t)
          /\ UNCHANGED <<stats, item_name>>
       \/ \E n \in Names \cup {NoName} :
             /\ stats' = [stats EXCEPT !.tooltip_scans = @ + 1]
             /\ item_name' = [item_name EXCEPT ![t] = n]
             /\ Goto(t, IF n = NoName THEN "sleep" ELSE "handle")
             /\ UNCHANGED <<status_posted, status_shown>>
    /\ UNCHANGED <<state, running, scan_thread, cooldown, trigger_check_counter,
                   current_time, fg, visible, clock, shows, last_show,
                   overlay_shown, config, ocr>>

\* _handle_detected_item, lines 225-237: read the time, apply the cooldown,
\* update the statistics of an accepted name
Handle(t) ==
    /\ pc[t] = "handle"
    /\ \E d \in Deltas : clock' = clock + d
    /\ IF InCooldown(item_name[t], clock')
       THEN /\ Goto(t, "sleep")
            /\ item_name' = [item_name EXCEPT ![t] = NoName]
            /\ UNCHANGED <<stats, current_time>>
       ELSE /\ stats' = [stats EXCEPT !.items_detected = @ + 1,
                                      !.last_item = item_name[t],
                                      !.last_item_time = clock']
            /\ current_time' = [current_time EXCEPT ![t] = clock']
            /\ Goto(t, "lookup")
            /\ UNCHANGED item_name
    /\ UNCHANGED <<state, running, scan_thread, cooldown, trigger_check_counter, fg,
                   visible, ui, goneScans,
                   widgets, config, ocr>>

\* _handle_detected_item, lines 240-253: look the name up, post the display
\* request, update the cooldown entry
Lookup(t) ==
    /\ pc[t] = "lookup"
    /\ \/ /\ Raised(t)
          /\ UNCHANGED <<stats, cooldown, shows, last_show>>
       \/ /\ stats' = [stats EXCEPT !.items_found_in_db =
                                       IF lookup(item_name[t]) THEN @ + 1 ELSE @]
          /\ \/ /\ shows' = shows + 1
                /\ last_show' = <<item_name[t], lookup(item_name[t])>>
                /\ UpdateCooldown(item_name[t], current_time[t])
                /\ Goto(t, "sleep")
                /\ UNCHANGED <<status_posted, status_shown>>
             \/ /\ Raised(t)
                /\ UNCHANGED <<cooldown, shows, last_show>>
    /\ item_name' = [item_name EXCEPT ![t] = NoName]
    /\ current_time' = [current_time EXCEPT ![t] = 0]
    /\ UNCHANGED <<state, running, scan_thread, trigger_check_counter, fg, visible,
                   clock, goneScans,
                   overlay_shown, config, ocr>>

\* the end of a sleep: of a paused iteration, of a tooltip tick, of the backoff
Wake(t) ==
    /\ pc[t] \in {"sleep", "backoff"}
    /\ Goto(t, "top")
    /\ UNCHANGED <<scanner, locals, fg, visible, clock, ui, goneScans,
                   widgets, config, ocr>>

Loop(t, b) ==
    \/ LoopStart(t)
    \/ LoopTop(t, b)
    \/ LoopPaused(t)
    \/ LoopStopped(t)
    \/ IdleBegin(t)
    \/ \E r \in Regions : IdleCheck(t, r)
    \/ IdleWake(t)
    \/ ActiveBegin(t)
    \/ \E r \in Regions : ActiveCheck(t, r)
    \/ Scan(t)
    \/ Handle(t)
    \/ Lookup(t)
    \/ Wake(t)

\* the scanner whose stop() always joins its loop thread
Next ==
    \/ Foreground
    \/ ScreenChange
    \/ \E t \in Threads : Loop(t, SpecBudget)

Spec == Init /\ [][Next]_vars

\* the scanner whose stop() may also return on the join timeout; every loop
\* thread that can take a step eventually takes one, and a call of start()
\* or stop() that has begun runs to its end
RaceNext ==
    \/ Foreground
    \/ stop_timeout
    \/ ScreenChange
    \/ \E t \in Threads : Loop(t, RaceBudget)

RaceSpec ==
    /\ Init
    /\ [][RaceNext]_vars
    /\ \A t \in Threads : WF_vars(Loop(t, RaceBudget))
    /\ WF_vars(start_thread)
    /\ WF_vars(stop_state)
    /\ WF_vars(stop_join \/ stop_timeout)

\* the scanner with the Tk main loop running beside it
UiNext ==
    \/ Foreground
    \/ mainloop
    \/ ScreenChange
    \/ \E t \in Threads : Loop(t, LiveBudget)

UiSpec == Init /\ [][UiNext]_vars

\* the scanner over several periods of Active
RecheckNext ==
    \/ Foreground
    \/ ScreenChange
    \/ \E t \in Threads : Loop(t, RecheckBudget)

RecheckSpec == Init /\ [][RecheckNext]_vars

\* the scanner with settings reloads beside it
ReloadNext ==
    \/ Foreground
    \/ reload_settings
    \/ ScreenChange
    \/ \E t \in Threads : Loop(t, LiveBudget)

ReloadSpec == Init /\ [][ReloadNext]_vars

\* one call of _handle_detected_item with every timing: the loop thread has
\* just parsed the name n, at most one display (of n0 at time t0) has taken
\* place, and the clock stands at c
CooldownInit ==
    \E n0 \in Names \cup {NoName}, t0 \in 0..MaxTime, c \in 0..MaxTime, n \in Names :
        /\ n0 = NoName => t0 = 0
        /\ t0 <= c
        /\ state = ACTIVE
        /\ running = TRUE
        /\ scan_thread = 1
        /\ stats = [trigger_scans |-> 1,
                    tooltip_scans |-> IF n0 = NoName THEN 1 ELSE 2,
                    items_detected |-> IF n0 = NoName THEN 0 ELSE 1,
                    items_found_in_db |-> IF lookup(n0) THEN 1 ELSE 0,
                    last_item |-> n0,
                    last_item_time |-> t0]
        /\ last_shown_item = n0
        /\ last_shown_time = t0
        /\ trigger_check_counter = IF n0 = NoName THEN 1 ELSE 2
        /\ pc = [t \in Threads |-> IF t = 1 THEN "handle" ELSE "none"]
        /\ item_name = [t \in Threads |-> IF t = 1 THEN n ELSE NoName]
        /\ current_time = [t \in Threads |-> 0]
        /\ fg = "ready"
        /\ visible = {1}
        /\ clock = c
        /\ status_posted = "active"
        /\ shows = IF n0 = NoName THEN 0 ELSE 1
        /\ last_show = <<n0, lookup(n0)>>
        /\ goneScans = 0
        /\ status_shown = "active"
        /\ overlay_shown = <<IF n0 = NoName THEN 0 ELSE 1, <<n0, lookup(n0)>>>>
        /\ instance = Settings(Cooldown)
        /\ loop_settings = [t \in Threads |-> Settings(Cooldown)]
        /\ call = NoCall
        /\ returned = <<>>

CooldownNext == Handle(1) \/ Lookup(1)

CooldownSpec == CooldownInit /\ [][CooldownNext]_vars

\* ------------------------------------------------------------ OCR text
\* A string is a sequence of one-character strings; a tooltip text is given
\* as the sequence text.split("\n") of its lines.
\* str.isupper / str.isalpha of one character
Upper ==
    {"A", "B", "C", "D", "E", "F", "G", "H", "I", "J", "K", "L", "M", "N", "O", "P",
     "Q", "R", "S", "T", "U", "V", "W", "X", "Y", "Z"}
Lower ==
    {"a", "b", "c", "d", "e", "f", "g", "h", "i", "j", "k", "l", "m", "n", "o", "p",
     "q", "r", "s", "t", "u", "v", "w", "x", "y", "z"}
isalpha(c) == c \in Upper \cup Lower
isupper(c) == c \in Upper
\* characters matched by \s
Whitespace == {" ", "\t"}
\* characters removed by re.sub(r"[|\\/_]", "", text)
Artifacts == {"|", "\\", "/", "_"}

\* Python's None and a returned string
None == [none |-> TRUE, name |-> <<>>]
Some(name) == [none |-> FALSE, name |-> name]

RECURSIVE lstrip(_)
lstrip(s) == IF s # <<>> /\ Head(s) \in Whitespace THEN lstrip(Tail(s)) ELSE s
RECURSIVE rstrip(_)
rstrip(s) ==
    IF s # <<>> /\ s[Len(s)] \in Whitespace THEN rstrip(SubSeq(s, 1, Len(s) - 1)) ELSE s
\* str.strip()
strip(s) == rstrip(lstrip(s))

\* re.sub(r"\s+", " ", text): every run of whitespace becomes one space
RECURSIVE collapse(_)
collapse(s) ==
    IF s = <<>> THEN <<>>
    ELSE IF Head(s) \in Whitespace THEN <<" ">> \o collapse(lstrip(Tail(s)))
    ELSE <<Head(s)>> \o collapse(Tail(s))

\* OCREngine._clean_text
clean_text_uncollapsed(text) == strip(SelectSeq(text, LAMBDA c : c \notin Artifacts))
clean_text(text) == strip(collapse(SelectSeq(text, LAMBDA c : c \notin Artifacts)))

\* " ".join(parts)
RECURSIVE join(_)
join(parts) ==
    IF parts = <<>> THEN <<>>
    ELSE IF Len(parts) = 1 THEN parts[1]
    ELSE parts[1] \o <<" ">> \o join(Tail(parts))

\* `is_all_caps and len(cleaned) >= 3` of parse_item_name_from_tooltip
is_all_caps(cleaned) == \A i \in 1..Len(cleaned) : isalpha(cleaned[i]) => isupper(cleaned[i])
name_line_from_two(cleaned) == is_all_caps(cleaned) /\ Len(cleaned) >= 2
name_line(cleaned) == is_all_caps(cleaned) /\ Len(cleaned) >= 3

\* the for loop of parse_item_name_from_tooltip from line i on: the name
\* lines collected when it ends
RECURSIVE collect(_, _, _, _)
collect(lines, i, name_lines, found_name) ==
    IF i > Len(lines) THEN name_lines
    ELSE LET cleaned == clean_text(lines[i])
         IN  IF cleaned = <<>> \/ Len(cleaned) < 2
                THEN collect(lines, i + 1, name_lines, found_name)
             ELSE IF \A k \in 1..Len(cleaned) : ~isalpha(cleaned[k])
                THEN collect(lines, i + 1, name_lines, found_name)
             ELSE IF name_line(cleaned)
                THEN collect(lines, i + 1, Append(name_lines, cleaned), TRUE)
             ELSE IF found_name
                THEN name_lines
             ELSE collect(lines, i + 1, name_lines, found_name)

\* OCREngine.parse_item_name_from_tooltip(text)
parse_item_name_from_tooltip(text) ==
    LET stripped == [i \in 1..Len(text) |-> strip(text[i])]
        lines == SelectSeq(stripped, LAMBDA l : l # <<>>)
        name_lines == collect(lines, 1, <<>>, FALSE)
    IN  IF lines = <<>> THEN None
        ELSE IF name_lines # <<>> THEN Some(join(name_lines))
        ELSE None

\* lines a tooltip text is made of
LineActions == <<"A", "C", "T", "I", "O", "N", "S">>
LineAdvanced ==
    <<"A", "D", "V", "A", "N", "C", "E", "D", " ", "E", "L", "E", "C", "T", "R", "I",
      "C", "A", "L">>
LineComponents == <<"C", "O", "M", "P", "O", "N", "E", "N", "T", "S">>
LineSell == <<"S", "e", "l", "l", " ", "f", "o", "r", " ", "1", "2", "c">>
LineEmpty == <<>>
LineBlank == <<" ", " ">>
LineBar == <<"|">>
LineLowerChar == <<"x">>
LineUpperChar == <<"A", "|">>
LineTwoCaps == <<"O", "K">>
LineDigits == <<"1", "2", "3">>
LineMark == <<" ", "M", "K", "3", " ">>
LineOilCan == <<"O", "I", "L", " ", "\t", "C", "A", "N">>
LineGun == <<"_", "G", "U", "N", "/">>
TooltipLines ==
    {LineActions, LineAdvanced, LineComponents, LineSell,
     LineEmpty, LineBlank, LineBar, LineLowerChar,
     LineUpperChar, LineTwoCaps, LineDigits, LineMark,
     LineOilCan, LineGun}
NameAdvanced ==
    <<"A", "D", "V", "A", "N", "C", "E", "D", " ", "E", "L", "E", "C", "T", "R", "I",
      "C", "A", "L", " ", "C", "O", "M", "P", "O", "N", "E", "N", "T", "S">>
NameOilCanGun == <<"O", "I", "L", " ", "C", "A", "N", " ", "G", "U", "N">>

\* every text of at most MaxLines lines
Texts == UNION {[1..k -> TooltipLines] : k \in 0..MaxLines}

ParseCall(text) == [fn |-> "parse_item_name_from_tooltip", text |-> text, target |-> <<>>]

\* one call of parse_item_name_from_tooltip on any text
ParserInit ==
    /\ state = IDLE
    /\ running = FALSE
    /\ scan_thread = 0
    /\ stats = ScannerStats
    /\ last_shown_item = NoName
    /\ last_shown_time = 0
    /\ trigger_check_counter = 0
    /\ pc = [t \in Threads |-> "none"]
    /\ item_name = [t \in Threads |-> NoName]
    /\ current_time = [t \in Threads |-> 0]
    /\ fg = "ready"
    /\ visible = {}
    /\ clock = 0
    /\ status_posted = "none"
    /\ shows = 0
    /\ last_show = <<NoName, FALSE>>
    /\ goneScans = 0
    /\ status_shown = "none"
    /\ overlay_shown = <<0, <<NoName, FALSE>>>>
    /\ instance = Settings(Cooldown)
    /\ loop_settings = [t \in Threads |-> Settings(Cooldown)]
    /\ \E text \in Texts : call = ParseCall(text)
    /\ returned = <<>>

parse_return ==
    /\ call.fn = "parse_item_name_from_tooltip"
    /\ returned = <<>>
    /\ returned' = <<parse_item_name_from_tooltip(call.text)>>
    /\ UNCHANGED <<scanner, pc, locals, fg, visible, clock, ui, goneScans, widgets,
                   config, call>>

ParserSpec == ParserInit /\ [][parse_return]_vars

\* text.split("\n")
RECURSIVE split(_, _)
split(s, line) ==
    IF s = <<>> THEN <<line>>
    ELSE IF Head(s) = "\n" THEN <<line>> \o split(Tail(s), <<>>)
    ELSE split(Tail(s), Append(line, Head(s)))

\* a name the parser returned is handed to the parser again; the call keeps
\* the name it was made with
parse_again ==
    /\ call.fn = "parse_item_name_from_tooltip"
    /\ call.target = <<>>
    /\ returned # <<>>
    /\ ~returned[1].none
    /\ call' = [fn |-> "parse_item_name_from_tooltip",
                text |-> split(returned[1].name, <<>>),
                target |-> returned[1].name]
    /\ returned' = <<>>
    /\ UNCHANGED <<scanner, pc, locals, fg, visible, clock, ui, goneScans, widgets,
                   config>>

ReparseNext == parse_return \/ parse_again
ReparseSpec == ParserInit /\ [][ReparseNext]_vars

\* set(text)
chars(s) == {s[i] : i \in 1..Len(s)}
\* `target in text`
contains(text, target) ==
    \E i \in 0..(Len(text) - Len(target)) : SubSeq(text, i + 1, i + Len(target)) = target
\* threshold: float = 0.7
threshold == [num |-> 7, den |-> 10]

\* OCREngine._fuzzy_match(text, target)
fuzzy_match_over_text(text, target) ==
    IF text = <<>> THEN FALSE
    ELSE IF contains(text, target) THEN TRUE
    ELSE LET text_chars == chars(text)
             target_chars == chars(target)
         IN  Cardinality(text_chars \cap target_chars) * threshold.den
                 >= threshold.num * Cardinality(text_chars)
fuzzy_match(text, target) ==
    IF text = <<>> THEN FALSE
    ELSE IF contains(text, target) THEN TRUE
    ELSE LET text_chars == chars(text)
             target_chars == chars(target)
         IN  \* overlap = len(text_chars & target_chars) / len(target_chars)
             \* overlap >= threshold
             Cardinality(text_chars \cap target_chars) * threshold.den
                 >= threshold.num * Cardinality(target_chars)

\* recognised texts: a word followed by at most MaxSuffix more characters
WordInventory == <<"I", "N", "V", "E", "N", "T", "O", "R", "Y">>
WordInventZero == <<"I", "N", "V", "E", "N", "T", "0", "R", "Y">>
WordXyz == <<"X", "Y", "Z">>
WordEmpty == <<>>
WordInvent == <<"I", "N", "V", "E", "N", "T">>
WordInven == <<"I", "N", "V", "E", "N">>
WordSeven == <<"A", "B", "C", "D", "E", "F", "G">>
WordSix == <<"A", "B", "C", "D", "E", "F">>
FuzzyWords ==
    {WordInventory, WordInventZero, WordXyz, WordEmpty,
     WordInvent, WordInven, WordSeven, WordSix}
FuzzyChars == {"A", "T", "O", "X"}
FuzzyTexts ==
    {w \o x : w \in FuzzyWords, x \in UNION {[1..k -> FuzzyChars] : k \in 0..MaxSuffix}}
\* TRIGGER_WORD, and two more target words
TRIGGER_WORD == WordInventory
TargetTen == <<"A", "B", "C", "D", "E", "F", "G", "H", "I", "J">>
TargetTwo == <<"A", "B">>
Targets == {TRIGGER_WORD, TargetTen, TargetTwo}

FuzzyCall(text, target) == [fn |-> "_fuzzy_match", text |-> text, target |-> target]

\* one call of _fuzzy_match on any text and target
FuzzyInit ==
    /\ state = IDLE
    /\ running = FALSE
    /\ scan_thread = 0
    /\ stats = ScannerStats
    /\ last_shown_item = NoName
    /\ last_shown_time = 0
    /\ trigger_check_counter = 0
    /\ pc = [t \in Threads |-> "none"]
    /\ item_name = [t \in Threads |-> NoName]
    /\ current_time = [t \in Threads |-> 0]
    /\ fg = "ready"
    /\ visible = {}
    /\ clock = 0
    /\ status_posted = "none"
    /\ shows = 0
    /\ last_show = <<NoName, FALSE>>
    /\ goneScans = 0
    /\ status_shown = "none"
    /\ overlay_shown = <<0, <<NoName, FALSE>>>>
    /\ instance = Settings(Cooldown)
    /\ loop_settings = [t \in Threads |-> Settings(Cooldown)]
    /\ \E text \in FuzzyTexts, target \in Targets : call = FuzzyCall(text, target)
    /\ returned = <<>>

fuzzy_return ==
    /\ call.fn = "_fuzzy_match"
    /\ returned = <<>>
    /\ returned' = <<fuzzy_match(call.text, call.target)>>
    /\ UNCHANGED <<scanner, pc, locals, fg, visible, clock, ui, goneScans, widgets,
                   config, call>>

FuzzySpec == FuzzyInit /\ [][fuzzy_return]_vars

\* ----------------------------------------------------------- OCR images
\* An image is a sequence of rows of RGB pixels. np.array(image) is indexed
\* from 0: h rows, w columns, px[i][j] the pixel of row i and column j.
\* the tooltip background #f9eedf
Cream == <<249, 238, 223>>
\* text
Ink == <<20, 20, 20>>
\* a category tag chip
Tag == <<60, 120, 200>>
\* a dark pixel of a tag chip
DarkTag == <<95, 40, 40>>
\* the game behind the tooltip
Grey == <<100, 100, 100>>

np_array(image) ==
    [h |-> Len(image),
     w |-> Len(image[1]),
     px |-> [i \in 0..(Len(image) - 1) |->
                [j \in 0..(Len(image[1]) - 1) |-> image[i + 1][j + 1]]]]

\* a[y0:y1, x0:x1]
slice(a, y0, y1, x0, x1) ==
    [h |-> y1 - y0,
     w |-> x1 - x0,
     px |-> [i \in 0..(y1 - y0 - 1) |->
                [j \in 0..(x1 - x0 - 1) |-> a.px[y0 + i][x0 + j]]]]

lower_bound == <<240, 225, 210>>
upper_bound == <<255, 250, 240>>
\* np.all((img_array >= lower_bound) & (img_array <= upper_bound), axis=2)
cream_mask(a) ==
    [h |-> a.h,
     w |-> a.w,
     px |-> [i \in 0..(a.h - 1) |->
                [j \in 0..(a.w - 1) |->
                    \A k \in 1..3 : /\ a.px[i][j][k] >= lower_bound[k]
                                    /\ a.px[i][j][k] <= upper_bound[k]]]]

\* np.sum(m, axis=1)[i] and np.sum(m, axis=0)[j] of a boolean array
sum_row(m, i) == Cardinality({j \in 0..(m.w - 1) : m.px[i][j]})
sum_col(m, j) == Cardinality({i \in 0..(m.h - 1) : m.px[i][j]})
\* count / total > num / den in floating point; 0 / 0 is nan, and nan
\* exceeds nothing
exceeds(count, total, num, den) == total # 0 /\ count * den > num * total

min_of(S) == CHOOSE x \in S : \A y \in S : x <= y
max_of(S) == CHOOSE x \in S : \A y \in S : y <= x

\* is_colored = (color_diff > 30) & (max_rgb > 80) & (max_rgb < 240)
is_colored(p) ==
    LET max_rgb == max_of({p[1], p[2], p[3]})
        min_rgb == min_of({p[1], p[2], p[3]})
        color_diff == max_rgb - min_rgb
    IN  color_diff > 30 /\ max_rgb > 80 /\ max_rgb < 240
\* is_dark = np.all(tight_cropped < 100, axis=2)
is_dark(p) == \A k \in 1..3 : p[k] < 100

\* col_cream_percentage = np.sum(mask, axis=0) / mask.shape[0]
\* cream_cols = np.where(col_cream_percentage > 0.3)[0]
significant_cols_of_cream_rows(mask) ==
    LET rows == {i \in 0..(mask.h - 1) : exceeds(sum_row(mask, i), mask.w, 5, 10)}
    IN  {j \in 0..(mask.w - 1) :
            exceeds(Cardinality({i \in rows : mask.px[i][j]}), Cardinality(rows), 3, 10)}
significant_cols(mask) ==
    {j \in 0..(mask.w - 1) : exceeds(sum_col(mask, j), mask.h, 3, 10)}

NoArray == [h |-> 0, w |-> 0, px |-> <<>>]

\* Image.new("L", (image.width * 2, image.height * 2), 255): the return of
\* preprocess_tooltip on its two fallback paths, with the locals assigned
\* by then
blank_fixed(a, cream_rows, cream_cols, cropped) ==
    [blank |-> TRUE, raised |-> FALSE, size |-> <<200, 200>>,
     cream_rows |-> cream_rows, cream_cols |-> cream_cols, cropped |-> cropped,
     tight_cols |-> {}, tight_cropped |-> NoArray, result |-> NoArray]
blank(a, cream_rows, cream_cols, cropped) ==
    [blank |-> TRUE, raised |-> FALSE, size |-> <<a.w * 2, a.h * 2>>,
     cream_rows |-> cream_rows, cream_cols |-> cream_cols, cropped |-> cropped,
     tight_cols |-> {}, tight_cropped |-> NoArray, result |-> NoArray]

\* result: white, black where the pixel is dark and its row has no
\* significant colour
text_mask_of_all_rows(tight_cropped) ==
    [h |-> tight_cropped.h,
     w |-> tight_cropped.w,
     px |-> [i \in 0..(tight_cropped.h - 1) |->
                [j \in 0..(tight_cropped.w - 1) |->
                    IF is_dark(tight_cropped.px[i][j]) THEN 0 ELSE 255]]]
text_mask(tight_cropped) ==
    LET row_has_significant_color ==
            [i \in 0..(tight_cropped.h - 1) |->
                exceeds(Cardinality({j \in 0..(tight_cropped.w - 1) :
                                        is_colored(tight_cropped.px[i][j])}),
                        tight_cropped.w, 5, 100)]
    IN  [h |-> tight_cropped.h,
         w |-> tight_cropped.w,
         px |-> [i \in 0..(tight_cropped.h - 1) |->
                    [j \in 0..(tight_cropped.w - 1) |->
                        IF ~row_has_significant_color[i]
                           /\ is_dark(tight_cropped.px[i][j])
                        THEN 0 ELSE 255]]]

\* OCREngine.preprocess_tooltip(image): the possible returns, each with the
\* locals of the call. Resizing an image without columns raises in Pillow
\* (ValueError) or, where the library accepts it, yields an empty image.
preprocess_tooltip(image) ==
    LET img_array == np_array(image)
        mask == cream_mask(img_array)
        cream_rows == {i \in 0..(mask.h - 1) : exceeds(sum_row(mask, i), mask.w, 5, 10)}
        cream_cols == significant_cols(mask)
    IN  IF cream_rows = {} \/ cream_cols = {}
        THEN {blank(img_array, cream_rows, cream_cols, NoArray)}
        ELSE
        LET y_min == min_of(cream_rows)
            y_max == max_of(cream_rows)
            x_min == min_of(cream_cols)
            x_max == max_of(cream_cols)
            cropped == slice(img_array, y_min, y_max, x_min, x_max)
            cropped_mask == slice(mask, y_min, y_max, x_min, x_max)
            tight_cols == {j \in 0..(cropped_mask.w - 1) :
                              exceeds(sum_col(cropped_mask, j), cropped_mask.h, 5, 10)}
        IN  IF tight_cols = {}
            THEN {blank(img_array, cream_rows, cream_cols, cropped)}
            ELSE
            LET tight_x_min == min_of(tight_cols)
                tight_x_max == max_of(tight_cols)
                tight_cropped == slice(cropped, 0, cropped.h, tight_x_min, tight_x_max)
                result == text_mask(tight_cropped)
                frame == [blank |-> FALSE, raised |-> FALSE,
                          size |-> <<result.w * 2, result.h * 2>>,
                          cream_rows |-> cream_rows, cream_cols |-> cream_cols,
                          cropped |-> cropped, tight_cols |-> tight_cols,
                          tight_cropped |-> tight_cropped, result |-> result]
            IN  IF result.w = 0 \/ result.h = 0
                THEN {frame, [frame EXCEPT !.raised = TRUE]}
                ELSE {frame}

\* rows of captured images
RowCream == <<Cream, Cream, Cream, Cream>>
RowText == <<Cream, Ink, Cream, Cream>>
RowDarkTag == <<Cream, DarkTag, Cream, Cream>>
RowTag == <<Cream, Tag, Cream, Cream>>
RowEdge == <<Cream, Cream, Cream, Grey>>
RowGap == <<Cream, Grey, Cream, Cream>>
RowCorner == <<Grey, Grey, Grey, Cream>>
RowGame == <<Grey, Grey, Grey, Grey>>
RowHalf == <<Cream, Cream, Grey, Grey>>
RowNoise == <<Ink, Tag, DarkTag, Grey>>
ImageRows ==
    {RowCream, RowText, RowDarkTag, RowTag, RowEdge, RowGap, RowCorner, RowGame,
     RowHalf, RowNoise}
\* rows of a wide capture: background with the given number of tag pixels
\* (the first of them dark) and, or not, a pixel of text
WideWidth == 22
WideRow(tags, text) ==
    [j \in 1..WideWidth |->
        IF j = 2 /\ tags >= 1 THEN DarkTag
        ELSE IF j = 3 /\ tags >= 2 THEN Tag
        ELSE IF j = 5 /\ text THEN Ink
        ELSE Cream]
WideRows == {WideRow(tags, text) : tags \in 0..2, text \in BOOLEAN}
\* every image of at most MaxRows rows
Images ==
    UNION {[1..k -> ImageRows] \cup [1..k -> WideRows] : k \in 1..MaxRows}

PreprocessCall(image) == [fn |-> "preprocess_tooltip", image |-> image]

\* one call of preprocess_tooltip on any image
PreprocessInit ==
    /\ state = IDLE
    /\ running = FALSE
    /\ scan_thread = 0
    /\ stats = ScannerStats
    /\ last_shown_item = NoName
    /\ last_shown_time = 0
    /\ trigger_check_counter = 0
    /\ pc = [t \in Threads |-> "none"]
    /\ item_name = [t \in Threads |-> NoName]
    /\ current_time = [t \in Threads |-> 0]
    /\ fg = "ready"
    /\ visible = {}
    /\ clock = 0
    /\ status_posted = "none"
    /\ shows = 0
    /\ last_show = <<NoName, FALSE>>
    /\ goneScans = 0
    /\ status_shown = "none"
    /\ overlay_shown = <<0, <<NoName, FALSE>>>>
    /\ instance = Settings(Cooldown)
    /\ loop_settings = [t \in Threads |-> Settings(Cooldown)]
    /\ \E image \in Images : call = PreprocessCall(image)
    /\ returned = <<>>

preprocess_return ==
    /\ call.fn = "preprocess_tooltip"
    /\ returned = <<>>
    /\ \E frame \in preprocess_tooltip(call.image) : returned' = <<frame>>
    /\ UNCHANGED <<scanner, pc, locals, fg, visible, clock, ui, goneScans, widgets,
                   config, call>>

PreprocessSpec == PreprocessInit /\ [][preprocess_return]_vars

\* ---------------------------------------------------------- OCR capture
max(a, b) == IF a >= b THEN a ELSE b
min(a, b) == IF a <= b THEN a ELSE b

\* ImageGrab.grab(bbox): the image of the rectangle, or OSError when the
\* screen cannot be grabbed; for a rectangle with right < left or
\* bottom < top the crop inside grab raises ValueError or, in older versions
\* of the library, yields an image without pixels
GrabOutcomes(bbox) ==
    IF bbox[3] < bbox[1] \/ bbox[4] < bbox[2]
    THEN {"image", "ValueError", "OSError"}
    ELSE {"image", "OSError"}
Grabbed(bbox) ==
    [w |-> max(0, bbox[3] - bbox[1]), h |-> max(0, bbox[4] - bbox[2]), of |-> "screen"]
\* Image.new("RGB", size, color="black")
Black(w, h) == [w |-> w, h |-> h, of |-> "black"]
NoImage == [w |-> 0, h |-> 0, of |-> "none"]

\* the rectangle capture_around_cursor resolves
bbox_unfloored(cursor, screen, offset, size) ==
    LET left0 == cursor[1] + offset[1]
        top0 == cursor[2] + offset[2]
        right0 == left0 + size[1]
        bottom0 == top0 + size[2]
        left == max(0, min(left0, screen[1] - 1))
        top == max(0, min(top0, screen[2] - 1))
    IN  <<left, top, min(right0, screen[1]), min(bottom0, screen[2])>>
bbox_around_cursor(cursor, screen, offset, size) ==
    LET left0 == cursor[1] + offset[1]
        top0 == cursor[2] + offset[2]
        right0 == left0 + size[1]
        bottom0 == top0 + size[2]
        left == max(0, min(left0, screen[1] - 1))
        top == max(0, min(top0, screen[2] - 1))
        right == max(left + 1, min(right0, screen[1]))
        bottom == max(top + 1, min(bottom0, screen[2]))
    IN  <<left, top, right, bottom>>

\* OCREngine.capture_around_cursor: the possible returns
capture_around_cursor(cursor, screen, offset, size) ==
    LET bbox == bbox_around_cursor(cursor, screen, offset, size)
    IN  {IF grab = "image"
            THEN [raised |-> "none", bbox |-> bbox, image |-> Grabbed(bbox)]
         ELSE IF grab = "OSError"
            THEN [raised |-> "none", bbox |-> bbox, image |-> Black(100, 100)]
         ELSE [raised |-> grab, bbox |-> bbox, image |-> NoImage]
           : grab \in GrabOutcomes(bbox)}

\* RegionMixin.bbox
region_bbox(region) ==
    <<region.x, region.y, region.x + region.width, region.y + region.height>>
\* OCREngine.capture_region: the possible returns. Image.new raises
\* ValueError for a negative width or height.
capture_region(region) ==
    LET bbox == region_bbox(region)
    IN  {IF grab = "image"
            THEN [raised |-> "none", bbox |-> bbox, image |-> Grabbed(bbox)]
         ELSE IF grab = "OSError" /\ region.width >= 0 /\ region.height >= 0
            THEN [raised |-> "none", bbox |-> bbox,
                  image |-> Black(region.width, region.height)]
         ELSE [raised |-> "ValueError", bbox |-> bbox, image |-> NoImage]
           : grab \in GrabOutcomes(bbox)}

\* screens, cursor positions, TOOLTIP_CAPTURE_* and TRIGGER_REGION_* settings
Screens == (1..MaxScreen) \X (1..MaxScreen)
Cursors == (-1..MaxScreen) \X (-1..MaxScreen)
Offsets == (-MaxScreen..1) \X (-MaxScreen..1)
Sizes == (-1..MaxScreen) \X (-1..MaxScreen)
Rects ==
    [x : 0..1, y : 0..1, width : -1..MaxScreen, height : -1..MaxScreen]

CursorCall(cursor, screen, offset, size) ==
    [fn |-> "capture_around_cursor", cursor |-> cursor, screen |-> screen,
     offset |-> offset, size |-> size]
RegionCall(region) == [fn |-> "capture_region", region |-> region]

\* one capture, of a region or around the cursor
CaptureInit ==
    /\ state = IDLE
    /\ running = FALSE
    /\ scan_thread = 0
    /\ stats = ScannerStats
    /\ last_shown_item = NoName
    /\ last_shown_time = 0
    /\ trigger_check_counter = 0
    /\ pc = [t \in Threads |-> "none"]
    /\ item_name = [t \in Threads |-> NoName]
    /\ current_time = [t \in Threads |-> 0]
    /\ fg = "ready"
    /\ visible = {}
    /\ clock = 0
    /\ status_posted = "none"
    /\ shows = 0
    /\ last_show = <<NoName, FALSE>>
    /\ goneScans = 0
    /\ status_shown = "none"
    /\ overlay_shown = <<0, <<NoName, FALSE>>>>
    /\ instance = Settings(Cooldown)
    /\ loop_settings = [t \in Threads |-> Settings(Cooldown)]
    /\ \/ \E cursor \in Cursors, screen \in Screens, offset \in Offsets, size \in Sizes :
            call = CursorCall(cursor, screen, offset, size)
       \/ \E region \in Rects : call = RegionCall(region)
    /\ returned = <<>>

capture_around_cursor_return ==
    /\ call.fn = "capture_around_cursor"
    /\ returned = <<>>
    /\ \E r \in capture_around_cursor(call.cursor, call.screen, call.offset, call.size) :
            returned' = <<r>>
    /\ UNCHANGED <<scanner, pc, locals, fg, visible, clock, ui, goneScans, widgets,
                   config, call>>

capture_region_return ==
    /\ call.fn = "capture_region"
    /\ returned = <<>>
    /\ \E r \in capture_region(call.region) : returned' = <<r>>
    /\ UNCHANGED <<scanner, pc, locals, fg, visible, clock, ui, goneScans, widgets,
                   config, call>>

CaptureNext == capture_around_cursor_return \/ capture_region_return
CaptureSpec == CaptureInit /\ [][CaptureNext]_vars

\* ------------------------------------------------------------------ claims
\* a step of the live loop thread t
LoopStep(t) == ~Exited(t) /\ pc'[t] # pc[t]
\* the step of t ended in the except clause of the loop
Failed(t) == pc'[t] \in {"backoff", "dead"}

\* C1: in state Idle, a trigger check that finds the word in the region it
\* looks at (the first, or the second after the first has missed) sets the
\* state to Active in that step of the tick; a check that misses leaves the
\* state as it is.
C1_TriggerActivates ==
    [][\A t \in Threads :
          /\ (pc[t] = "idle_chk1" /\ LoopStep(t) /\ ~Failed(t))
                => IF 1 \in visible THEN state' = ACTIVE /\ pc'[t] = "top"
                                    ELSE state' = state /\ pc'[t] = "idle_chk2"
          /\ (pc[t] = "idle_chk2" /\ LoopStep(t) /\ ~Failed(t))
                => IF 2 \in visible THEN state' = ACTIVE /\ pc'[t] = "top"
                                    ELSE state' = state /\ pc'[t] = "idle_sleep"]_vars

\* C1 witness: the word is only in the second region and the tick has
\* switched the scanner to Active
C1_SecondRegionHit ==
    \E t \in Threads :
        /\ pc[t] = "top"
        /\ state = ACTIVE
        /\ visible = {2}
        /\ status_posted = "active"
        /\ stats.trigger_scans = 1
        /\ trigger_check_counter = 0

\* C2: an Active tick re-checks the trigger exactly when its tick count is a
\* multiple of 3; a tick in between goes straight to the tooltip scan with the
\* state still Active, whatever the screen shows; and a loop step takes the
\* state from Active to Idle only as the failing last check of a re-check tick.
C2_RecheckEveryThird ==
    [][\A t \in Threads :
          /\ (pc[t] = "disp" /\ state = ACTIVE /\ LoopStep(t))
                => IF trigger_check_counter' % 3 = 0
                   THEN pc'[t] = "act_chk1" /\ state' = ACTIVE
                   ELSE pc'[t] = "act_scan" /\ state' = ACTIVE
          /\ (pc'[t] \in {"act_chk1", "act_chk2"} /\ LoopStep(t))
                => trigger_check_counter' % 3 = 0
          /\ (LoopStep(t) /\ state = ACTIVE /\ state' # ACTIVE)
                => /\ state' = IDLE
                   /\ pc[t] = "act_chk2"
                   /\ 2 \notin visible
                   /\ trigger_check_counter % 3 = 0]_vars

\* C2 witness: the two ticks after a re-check have both scanned the tooltip
\* with the trigger in no region, and the state is still Active
C2_ScansWithTriggerGone ==
    \E t \in Threads :
        /\ state = ACTIVE
        /\ visible = {}
        /\ goneScans = 2
        /\ trigger_check_counter % 3 = 2
        /\ pc[t] = "sleep"

\* C3 as claimed: once the trigger is gone, at most one further tooltip scan
\* is begun.
C3_OneFurtherScan == goneScans <= 1

\* C3 amended: once the trigger is gone, at most three further tooltip scans
\* are begun before the next re-check, and a re-check that finds no region
\* showing the word sets the state to Idle.
C3_ThreeFurtherScans ==
    [][/\ goneScans' <= 3
       /\ \A t \in Threads :
             (pc[t] = "act_chk2" /\ LoopStep(t) /\ ~Failed(t) /\ 2 \notin visible)
                => state' = IDLE /\ goneScans' = 0]_vars

\* C3 witness: three tooltip scans since the trigger went away, state Active
C3_ThreeScansDone ==
    /\ goneScans = 3
    /\ state = ACTIVE
    /\ visible = {}

\* C4: a parsed name is suppressed (the handler returns at once) exactly when
\* it equals the last displayed name and less than 2.0 s have passed since
\* that display; otherwise it is accepted (the handler goes on to the lookup).
C4_CooldownDecision ==
    [][\A t \in Threads :
          (pc[t] = "handle" /\ LoopStep(t))
             => /\ pc'[t] \in {"sleep", "lookup"}
                /\ (pc'[t] = "sleep") <=>
                      (item_name[t] = last_shown_item /\ clock' - last_shown_time < 20)]_vars

\* C4 witness: the last displayed name, detected 2.1 s after its display, is
\* accepted
C4_AcceptedAfterWindow ==
    \E t \in Threads :
        /\ pc[t] = "lookup"
        /\ item_name[t] = last_shown_item
        /\ current_time[t] - last_shown_time = 21

\* C5: a suppressed detection (the last displayed name, less than 2.0 s after
\* its display) leaves the statistics, the cooldown entry and the display
\* requests as they are and issues no lookup.
C5_SuppressedChangesNothing ==
    [][\A t \in Threads :
          (/\ pc[t] = "handle"
           /\ LoopStep(t)
           /\ item_name[t] = last_shown_item
           /\ clock' - last_shown_time < 20)
             => /\ pc'[t] = "sleep"
                /\ UNCHANGED <<stats, last_shown_item, last_shown_time, shows,
                               last_show>>]_vars

\* C5 witness: WIDGET was displayed at 1.0 s, suppressed at 2.0 s and, the
\* window being measured from the display at 1.0 s, accepted again at 3.0 s
C5_AcceptedAgain ==
    /\ stats.tooltip_scans = 3
    /\ stats.items_detected = 2
    /\ stats.items_found_in_db = 2
    /\ shows = 2
    /\ last_shown_item = "WIDGET"
    /\ last_shown_time = 30
    /\ clock = 30

\* C6: an accepted detection whose lookup and display post return sets the
\* cooldown entry to the accepted name and the time read at its acceptance and
\* posts one display request, carrying the item or its absence.
C6_AcceptedUpdatesCooldown ==
    [][\A t \in Threads :
          (pc[t] = "lookup" /\ LoopStep(t) /\ ~Failed(t))
             => /\ pc'[t] = "sleep"
                /\ last_shown_item' = item_name[t]
                /\ last_shown_time' = current_time[t]
                /\ current_time[t] = stats.last_item_time
                /\ shows' = shows + 1
                /\ last_show' = <<item_name[t], item_name[t] \in Store>>]_vars

\* C6 witness: a name the store does not hold has been displayed with no
\* item and is the cooldown entry
C6_UnknownItemShown ==
    /\ shows = 1
    /\ last_show = <<"GADGET", FALSE>>
    /\ last_shown_item = "GADGET"
    /\ last_shown_time = stats.last_item_time
    /\ stats.items_detected = 1
    /\ stats.items_found_in_db = 0

\* C7 as claimed: once paused, the state stays Paused until resume(), stop()
\* or start() changes it.
C7_PausedUntilResumed ==
    [][(state = PAUSED /\ state' # PAUSED) => (resume \/ stop_state \/ start_thread)]_vars

\* C8 as claimed: whenever stop() has cleared the running flag, every loop
\* thread alive at that time eventually exits. (A run in which the loops have
\* used up the work the model allows them is not held against the claim: a
\* thread kept from its next tick by that bound did not run forever.)
C8_StopLeadsToExit ==
    \A t \in Threads :
        (~running /\ ~Exited(t)) ~> (Exited(t) \/ ~Budget(RaceBudget))

\* C9 as claimed: once Stopped, the state stays Stopped, unless start() begins
\* a new run.
C9_StoppedIsTerminal ==
    [][(state = STOPPED /\ state' # STOPPED) => start_thread]_vars

\* C10 as claimed: no step of the foreground thread writes the state, the
\* statistics or the cooldown entry.
C10_ForegroundOnlyReads ==
    [][Foreground => UNCHANGED <<state, stats, last_shown_item, last_shown_time>>]_vars

\* the step of t ends an IDLE or ACTIVE tick that did not fail
TickDone(t) ==
    /\ LoopStep(t)
    /\ ~Failed(t)
    /\ \/ pc[t] \in {"idle_chk1", "idle_chk2", "act_chk2"} /\ pc'[t] = "top"
       \/ pc[t] = "idle_sleep"
       \/ pc[t] \in {"act_scan", "handle", "lookup"} /\ pc'[t] = "sleep"

\* C11 as claimed: a step of a tick that fails is caught by the loop: the
\* Error status is posted, the state is the one the tick began with, and the
\* thread goes to the backoff sleep, never out of the loop.
C11_FailureCaught ==
    [][\A t \in Threads :
          (LoopStep(t) /\ Failed(t))
             => /\ pc'[t] = "backoff"
                /\ status_posted' = "error"
                /\ state' = state]_vars

\* C12 as claimed: an IDLE or ACTIVE tick that completes without failure
\* leaves Scanning or Active, not Error, as the status last posted.
C12_ErrorHeals ==
    [][\A t \in Threads :
          TickDone(t) => status_posted' \in {"scanning", "active"}]_vars

\* C13 as claimed: whenever a loop thread passes `while self._running` into
\* a new tick, no other loop thread is alive.
C13_OneLoop ==
    [][\A t \in Threads :
          (pc[t] = "top" /\ pc'[t] = "disp")
             => \A u \in Threads \ {t} : Exited(u)]_vars

\* C14: no step of a loop thread changes a widget; a status or display
\* request of the loop is only handed to root.after; and a widget changes only
\* in a step of the foreground thread's main loop, which makes it show what
\* was posted.
C14_WidgetsOnForeground ==
    [][/\ \A t \in Threads : LoopStep(t) => UNCHANGED widgets
       /\ \A t \in Threads :
             (LoopStep(t) /\ pc[t] = "lookup" /\ ~Failed(t))
                => shows' = shows + 1 /\ overlay_shown[1] < shows'
       /\ (widgets' # widgets)
             => /\ fg = "ready"
                /\ UNCHANGED <<pc, ui>>
                /\ status_shown' = status_posted
                /\ overlay_shown' = <<shows, last_show>>]_vars

\* C14 witness: the loop has posted the Active status and a display request;
\* the main loop has run the status callback, and the display request is
\* still waiting for it
C14_RequestPending ==
    /\ status_posted = "active"
    /\ status_shown = "active"
    /\ shows = 1
    /\ last_show = <<"WIDGET", TRUE>>
    /\ overlay_shown = <<0, <<NoName, FALSE>>>>

\* positions of a loop thread between two ticks: not running, before the
\* loop, at `while self._running`, about to read the state, or in the sleep
\* that ends an iteration
TickBoundary == {"none", "done", "dead", "begin", "top", "disp", "sleep", "backoff"}

\* C15: while the state is Paused and every loop thread is between two ticks,
\* each step leaves the statistics, the cooldown entry and the re-check counter
\* as they are and keeps every loop thread between ticks (no check or scan
\* begins); the state leaves Paused only by resume(), which makes it Idle, or
\* by stop() or start().
C15_PauseKeepsCounters ==
    [][(state = PAUSED /\ \A t \in Threads : pc[t] \in TickBoundary)
          => /\ UNCHANGED <<stats, last_shown_item, last_shown_time,
                            trigger_check_counter>>
             /\ \A t \in Threads : pc'[t] \in TickBoundary
             /\ state' # PAUSED
                   => \/ resume /\ state' = IDLE
                      \/ stop_state
                      \/ start_thread]_vars

\* C15 witness: paused at a tick boundary after scans and a display, the loop
\* thread runs a paused iteration
C15_PausedIteration ==
    \E t \in Threads :
        /\ state = PAUSED
        /\ pc[t] = "disp"
        /\ running
        /\ stats.trigger_scans = 1
        /\ stats.tooltip_scans = 2
        /\ stats.items_detected = 1
        /\ last_shown_item = "WIDGET"
        /\ trigger_check_counter = 2

\* C16 as claimed: the cooldown window a loop thread applies to a detected
\* name is the one of the settings it read when the loop started, whatever
\* was reloaded since.
C16_SettingsReadAtLoopStart ==
    [][\A t \in Threads :
          (pc[t] = "handle" /\ LoopStep(t))
             => ((pc'[t] = "sleep") <=>
                    /\ item_name[t] = last_shown_item
                    /\ clock' - last_shown_time < loop_settings[t].cooldown)]_vars

\* C17: the lines "ACTIONS", "ADVANCED ELECTRICAL", "COMPONENTS",
\* "Sell for 12c" parse to "ADVANCED ELECTRICAL COMPONENTS".
C17_ExampleName ==
    (/\ call = ParseCall(<<LineActions, LineAdvanced, LineComponents, LineSell>>)
     /\ returned # <<>>)
        => returned[1] = Some(NameAdvanced)

\* A cleaned line with an alphabetic character, and a name line: at least 3
\* characters, an alphabetic character among them, none of them lowercase.
HasAlpha(l) == \E i \in 1..Len(l) : l[i] \in Upper \cup Lower
IsNameLine(l) == Len(l) >= 3 /\ HasAlpha(l) /\ \A i \in 1..Len(l) : l[i] \notin Lower
\* a line that ends a run of name lines: one of at least `shortest`
\* characters with an alphabetic character that is not a name line
EndsRun(l, shortest) == Len(l) >= shortest /\ HasAlpha(l) /\ ~IsNameLine(l)
\* the name lines from the first one up to the first later line that ends
\* the run, joined by single spaces; None without a name line
NameRun(text, shortest) ==
    LET c == [i \in 1..Len(text) |-> clean_text(text[i])]
        names == {i \in 1..Len(c) : IsNameLine(c[i])}
    IN  IF names = {} THEN None
        ELSE LET first == CHOOSE i \in names : \A j \in names : i <= j
                 enders == {j \in (first + 1)..Len(c) : EndsRun(c[j], shortest)}
                 stop == IF enders = {} THEN Len(c) + 1
                         ELSE CHOOSE j \in enders : \A k \in enders : j <= k
             IN  Some(join(SelectSeq(SubSeq(c, first, stop - 1), IsNameLine)))

\* C18 (as stated): for every text the parsed name is the name lines from the
\* first name line up to the first later line that has an alphabetic
\* character and is not a name line, joined by single spaces, and it is
\* absent exactly when the text has no name line.
C18_ParsedName ==
    (call.fn = "parse_item_name_from_tooltip" /\ returned # <<>>)
        => returned[1] = NameRun(call.text, 1)

\* C18 (amended): the same, except that a line of fewer than 2 characters
\* after cleaning never ends the run, whatever the character is.
C18_ParsedNameShortSkipped ==
    (call.fn = "parse_item_name_from_tooltip" /\ returned # <<>>)
        => returned[1] = NameRun(call.text, 2)

\* a one-letter line inside the run was skipped and the run ended at the
\* first mixed-case line
C18_ShortLineInsideRun ==
    /\ call = ParseCall(<<LineOilCan, LineLowerChar, LineGun, LineSell>>)
    /\ returned = <<Some(NameOilCanGun)>>

\* a text made of an all-caps header line, one line of at least 2 characters
\* with a lowercase letter, and then only item-name lines
HeaderThenName(text) ==
    LET c == [i \in 1..Len(text) |-> clean_text(text[i])]
    IN  /\ Len(c) >= 3
        /\ IsNameLine(c[1])
        /\ Len(c[2]) >= 2
        /\ \E k \in 1..Len(c[2]) : c[2][k] \in Lower
        /\ \A i \in 3..Len(c) : IsNameLine(c[i])
\* the item-name lines of such a text, joined
NameAfterHeader(text) ==
    join([i \in 1..(Len(text) - 2) |-> clean_text(text[i + 2])])

\* C19: when a non-caps line lies between a leading all-caps header and the
\* all-caps item-name lines after it, the parsed name is the item-name lines
\* and not the header.
C19_HeaderExcluded ==
    (/\ call.fn = "parse_item_name_from_tooltip"
     /\ returned # <<>>
     /\ HeaderThenName(call.text))
        => returned[1] = Some(NameAfterHeader(call.text))

\* the target occurs in the text, and the distinct characters they share
IsSubstring(target, text) ==
    \E i, j \in 0..Len(text) : i <= j /\ SubSeq(text, i + 1, j) = target
Shared(text, target) ==
    Cardinality({c \in chars(target) : \E i \in 1..Len(text) : text[i] = c})

\* C20: match(text, target) is true if and only if target is a substring of
\* text or the distinct characters shared by text and target, divided by the
\* distinct characters of target, are at least 0.7; for the target INVENTORY
\* the texts "INVENTORY" and "INVENT0RY" match, "XYZ" and the empty text do
\* not.
C20_FuzzyMatch ==
    (call.fn = "_fuzzy_match" /\ returned # <<>>)
        => /\ returned[1] <=>
                \/ IsSubstring(call.target, call.text)
                \/ 10 * Shared(call.text, call.target)
                       >= 7 * Cardinality(chars(call.target))
           /\ call.target = TRIGGER_WORD
                => /\ call.text \in {WordInventory, WordInventZero} => returned[1]
                   /\ call.text \in {WordXyz, WordEmpty} => ~returned[1]

\* "INVENT0RY" matched INVENTORY by its characters, not as a substring
C20_NoisyTriggerMatched ==
    /\ call = FuzzyCall(WordInventZero, TRIGGER_WORD)
    /\ ~IsSubstring(call.target, call.text)
    /\ returned = <<TRUE>>

\* a pixel inside the background colour band, and an image without any
InBand(p) == p[1] \in 240..255 /\ p[2] \in 225..250 /\ p[3] \in 210..240
NoBackground(image) ==
    \A i \in 1..Len(image) : \A j \in 1..Len(image[i]) : ~InBand(image[i][j])
\* the placeholder returned for a one-row image without background
ReferenceBlank == CHOOSE frame \in preprocess_tooltip(<<RowGame>>) : TRUE

\* C21 (as stated): for every image without a pixel inside the background
\* band, preprocessing does not raise and returns a white placeholder of one
\* fixed size, the same for all such images.
C21_BlankOfFixedSize ==
    (/\ call.fn = "preprocess_tooltip"
     /\ returned # <<>>
     /\ NoBackground(call.image))
        => /\ returned[1].blank
           /\ ~returned[1].raised
           /\ returned[1].size = ReferenceBlank.size

\* C21 (amended): for every such image, preprocessing does not raise and
\* returns a white placeholder twice as wide and twice as high as the image,
\* whatever the pixels are.
C21_BlankOfTwiceTheInput ==
    (/\ call.fn = "preprocess_tooltip"
     /\ returned # <<>>
     /\ NoBackground(call.image))
        => /\ returned[1].blank
           /\ ~returned[1].raised
           /\ returned[1].size = <<2 * Len(call.image[1]), 2 * Len(call.image)>>

\* a two-row image without background came back as an 8 x 4 placeholder
C21_TwoRowsOfGame ==
    /\ call = PreprocessCall(<<RowGame, RowNoise>>)
    /\ returned # <<>>
    /\ returned[1].blank
    /\ returned[1].size = <<8, 4>>

\* the rows of an image with more than half of their pixels in the band, and
\* the background pixels of column j among the rows R (columns and rows
\* counted from 0)
RowsCleared(image) ==
    {i \in 0..(Len(image) - 1) :
        2 * Cardinality({j \in 1..Len(image[i + 1]) : InBand(image[i + 1][j])})
            > Len(image[i + 1])}
BackgroundIn(image, j, R) == Cardinality({i \in R : InBand(image[i + 1][j + 1])})

\* C22 (as stated): a column is kept when its fraction of background pixels
\* over the rows that cleared the row threshold exceeds 0.3.
C22_ColumnsOverClearedRows ==
    (/\ call.fn = "preprocess_tooltip"
     /\ returned # <<>>
     /\ RowsCleared(call.image) # {})
        => returned[1].cream_cols =
               {j \in 0..(Len(call.image[1]) - 1) :
                   10 * BackgroundIn(call.image, j, RowsCleared(call.image))
                       > 3 * Cardinality(RowsCleared(call.image))}

\* C22 (amended): a column is kept when its fraction of background pixels
\* over all rows of the image exceeds 0.3.
C22_ColumnsOverAllRows ==
    (/\ call.fn = "preprocess_tooltip"
     /\ returned # <<>>
     /\ RowsCleared(call.image) # {})
        => returned[1].cream_cols =
               {j \in 0..(Len(call.image[1]) - 1) :
                   10 * BackgroundIn(call.image, j, 0..(Len(call.image) - 1))
                       > 3 * Len(call.image)}

\* the last column was kept for its background pixel in a row that did not
\* clear the row threshold
C22_ColumnKeptByOtherRow ==
    /\ call = PreprocessCall(<<RowEdge, RowCorner>>)
    /\ returned # <<>>
    /\ returned[1].cream_rows = {0}
    /\ returned[1].cream_cols = {0, 1, 2, 3}

\* a colored pixel: channel spread above 30 and maximum channel strictly
\* between 80 and 240; a dark pixel; a tag row of a crop
Colored(p) ==
    /\ \E a, b \in 1..3 : p[a] - p[b] > 30
    /\ \E a \in 1..3 : p[a] > 80
    /\ \A a \in 1..3 : p[a] < 240
Dark(p) == p[1] < 100 /\ p[2] < 100 /\ p[3] < 100
TagRow(crop, i) ==
    100 * Cardinality({j \in 0..(crop.w - 1) : Colored(crop.px[i][j])}) > 5 * crop.w

\* C23: before upscaling every pixel of the output is 0 or 255, the output
\* has the dimensions of the tight crop, and a pixel is 0 exactly when its
\* three channels are below 100 and its row is not a tag row.
C23_TextMask ==
    (/\ call.fn = "preprocess_tooltip"
     /\ returned # <<>>
     /\ ~returned[1].blank)
        => LET crop == returned[1].tight_cropped
               out == returned[1].result
           IN  /\ out.h = crop.h
               /\ out.w = crop.w
               /\ \A i \in 0..(crop.h - 1) : \A j \in 0..(crop.w - 1) :
                    /\ out.px[i][j] \in {0, 255}
                    /\ out.px[i][j] = 0 <=>
                           Dark(crop.px[i][j]) /\ ~TagRow(crop, i)

\* in a crop 20 pixels wide, the dark tag pixel of a row with one colored
\* pixel is black, the one of a row with two colored pixels is white
C23_TagRowAtThreshold ==
    /\ call = PreprocessCall(<<WideRow(1, TRUE), WideRow(2, TRUE), WideRow(0, FALSE)>>)
    /\ returned # <<>>
    /\ returned[1].result.w = 20
    /\ returned[1].result.px[0][1] = 0
    /\ returned[1].result.px[1][1] = 255
    /\ returned[1].result.px[1][4] = 255

\* C24: for every cursor position, offset and capture size on a screen of
\* width W >= 1 and height H >= 1 the resolved rectangle satisfies
\* 0 <= left < right <= W and 0 <= top < bottom <= H, and with the cursor at
\* (0,0) and negative offsets left and top are 0.
C24_RectangleOnScreen ==
    (call.fn = "capture_around_cursor" /\ returned # <<>>)
        => LET b == returned[1].bbox
           IN  /\ 0 <= b[1] /\ b[1] < b[3] /\ b[3] <= call.screen[1]
               /\ 0 <= b[2] /\ b[2] < b[4] /\ b[4] <= call.screen[2]
               /\ (/\ call.cursor = <<0, 0>>
                   /\ call.offset[1] < 0
                   /\ call.offset[2] < 0) => b[1] = 0 /\ b[2] = 0

\* the cursor at the origin, an offset up and to the left, and a rectangle
\* that would end left of the screen: one pixel at the origin is captured
C24_ClampedAtOrigin ==
    /\ call = CursorCall(<<0, 0>>, <<2, 2>>, <<-3, -3>>, <<2, 2>>)
    /\ returned # <<>>
    /\ returned[1].bbox = <<0, 0, 1, 1>>
    /\ returned[1].image = Grabbed(<<0, 0, 1, 1>>)

\* C25: a failure of the screen capture, for a trigger region or for the
\* rectangle around the cursor, never propagates out of the capture step: a
\* placeholder image is returned instead.
C25_CaptureNeverRaises ==
    (call.fn \in {"capture_region", "capture_around_cursor"} /\ returned # <<>>)
        => /\ returned[1].raised = "none"
           /\ returned[1].image # NoImage

\* C26: whenever preprocessing does not take the blank-fallback path, the
\* tight crop has at least one row and at least one column.
C26_TightCropNotEmpty ==
    (/\ call.fn = "preprocess_tooltip"
     /\ returned # <<>>
     /\ ~returned[1].blank)
        => returned[1].tight_cropped.h >= 1 /\ returned[1].tight_cropped.w >= 1

\* rows y0 through y1 and columns x0 through x1 of an array, ends included
Through(a, y0, y1, x0, x1) ==
    [h |-> y1 - y0 + 1,
     w |-> x1 - x0 + 1,
     px |-> [i \in 0..(y1 - y0) |-> [j \in 0..(x1 - x0) |-> a.px[y0 + i][x0 + j]]]]

\* C27: the first crop is the rows from the first to the last row that
\* cleared the row threshold and the columns from the first to the last
\* column that cleared the column threshold, ends included; the tight crop
\* spans the first through the last column that cleared 0.5, ends included.
C27_CropsIncludeBothEnds ==
    (/\ call.fn = "preprocess_tooltip"
     /\ returned # <<>>
     /\ returned[1].cream_rows # {}
     /\ returned[1].cream_cols # {})
        => LET r == returned[1]
               first == Through(np_array(call.image),
                                min_of(r.cream_rows), max_of(r.cream_rows),
                                min_of(r.cream_cols), max_of(r.cream_cols))
           IN  /\ r.cropped = first
               /\ ~r.blank =>
                    r.tight_cropped =
                        Through(r.cropped, 0, r.cropped.h - 1,
                                min_of(r.tight_cols), max_of(r.tight_cols))

\* the start of a tick in state Active
ActiveTick(t) == LoopStep(t) /\ pc[t] = "disp" /\ state = ACTIVE

C29_OneRequestPerDetection ==
    (\A t \in Threads : pc[t] \in TickBoundary) => shows = stats.items_detected

\* C30: parsing a parsed name again returns that name, and every parsed name
\* is one line of at least 3 characters without a lowercase letter, without
\* any of | \ / _ and without leading, trailing or repeated whitespace.
C30_ParsedNameIsFixedPoint ==
    (call.fn = "parse_item_name_from_tooltip" /\ returned # <<>>)
        => /\ call.target # <<>> => returned[1] = Some(call.target)
           /\ ~returned[1].none =>
                LET s == returned[1].name
                IN  /\ Len(s) >= 3
                    /\ \A i \in 1..Len(s) :
                          /\ s[i] \notin Lower
                          /\ s[i] \notin {"|", "\\", "/", "_", "\n"}
                          /\ s[i] \in {" ", "\t"} => s[i] = " " /\ i > 1 /\ i < Len(s)
                          /\ (s[i] = " " /\ i < Len(s)) => s[i + 1] # " "

\* the name of three cleaned lines came back from the second parse
C30_NameParsedAgain ==
    /\ call.fn = "parse_item_name_from_tooltip"
    /\ call.text = <<NameOilCanGun>>
    /\ call.target = NameOilCanGun
    /\ returned = <<Some(NameOilCanGun)>>

====
